---- MODULE Spec2Model ----
(***************************************************************************)
(* Order execution and position-management engine of the trading platform  *)
(* (app/services/execution_engine.py with the transaction manager, the     *)
(* order / position CRUD and the trading endpoints that share its store).  *)
(*                                                                         *)
(* The durable store (orders, trades, positions, ledger, account balance)  *)
(* is separated from each engine's SQLAlchemy session: a session keeps an  *)
(* identity map of the rows it has loaded and a unit of work of pending    *)
(* changes, which reach the store only at a commit.  One user and one      *)
(* account are modelled, with one instrument that has a price feed and one *)
(* that has none.  Money and entry prices are counted in thousandths of a  *)
(* currency unit, so that the 0.1% commission is exact.                    *)
(***************************************************************************)
EXTENDS Integers, Sequences, FiniteSets, TLC

\* Python None / SQL NULL of a nullable price or quantity attribute.
None == -1

\* Bounds of the model: the size of the orders table, the number of orders
\* placed under each specification, and the number of position ids.
MaxOrders == 3
MaxOrdersOne == 2
MaxOrdersSingle == 1
MaxOrdersTwo == 1
MaxOrdersPair == 2
MaxOrdersSell == 3
MaxOrdersMarket == 3
MaxOrdersSymbols == 2
MaxOrdersSells == 3
MaxOrdersMargin == 2
MaxOrdersLoop == 2
MaxPositions == 3

\* Executions of the wrapped operation whose outcome a behaviour chooses.
MaxExecutions == 5

\* Bounds on the environment of a behaviour: the number of price publications
\* and the number of other events (cancel and close requests, lock expiries,
\* runs of the log-clearing task).
MaxPublications == 2
MaxEvents == 2
MaxEventsTwo == 1
MaxEventsBuys == 1
MaxPublicationsPair == 1
MaxPublicationsSingle == 1
MaxEventsSingle == 1
MaxEventsPair == 1
MaxPublicationsSell == 1
MaxEventsSell == 1
MaxPublicationsMarket == 2
MaxEventsMarket == 1
MaxPublicationsSymbols == 1
MaxEventsSymbols == 1
MaxPublicationsSells == 2
MaxEventsSells == 1
MaxPublicationsMargin == 2
MaxEventsMargin == 1
MaxPublicationsLoop == 1
MaxEventsLoop == 3

\* Program constants.
CommissionRateDen == 1000      \* commission_rate 0.001 = 1 / 1000
InitialBalance == 10000        \* default demo balance of a new account
PnlLimit == 1000000            \* P&L values above 1M are reported as 0
MaxRetries == 3                \* @retry_on_deadlock(max_retries=3)
DeadlockRetryDelay == 500      \* deadlock_retry_delay 0.5 s, in milliseconds

Engines == {1, 2}
Orders == 1..MaxOrders
Pids == 1..MaxPositions
Prices == {1, 2}
\* Prices far enough apart for a loss of 80% and more of the margin.
PricesMargin == {1, 5, 10}
Quantities == {1, 2}
LimitPrices == {1}
StopPrices == {2}
\* A symbol of the market-data service's lists, and the symbol of an instrument
\* that is in none of them: no latest_price key is ever published for it.
FeedSymbol == "BTCUSDT"
Symbols == {FeedSymbol, "EURUSD"}
OrderTypes == {"market", "limit", "stop", "stop_limit"}
OrderSides == {"buy", "sell"}
OrderFields == {"symbol", "otype", "side", "status", "quantity", "filled_quantity",
                "remaining_quantity", "price", "stop_price", "total_amount",
                "rejection_reason", "notes"}
Terminal == {"filled", "cancelled", "rejected"}

VARIABLES
    instances,   \* the engine instances (processes, or loop tasks of one process) that exist
    workload,    \* what the environment may still do: order shapes, number of
                 \* orders, close quantities, prices, publications and other
                 \* events left
    feed,        \* price published under latest_price:<symbol>, None if absent
    lockKey,     \* order id -> engine whose SET NX created order_lock:<id>, 0 if absent
    orders,      \* store: sequence of order rows
    trades,      \* store: sequence of trade rows
    positions,   \* store: position id -> position row (status "none": no row)
    ledger,      \* store: sequence of account_ledger rows of the account
    balance,     \* store: accounts.balance
    pidSeq,      \* number of position ids handed out so far
    eng,         \* engine id -> engine object and loop position
    sess,        \* engine id -> the session of the running tick
    events,      \* events published on trading_events: set of <<type, order id>>
    engine       \* is_running and execution_task of the engine object, the
                 \* start() and stop() calls under way

vars == <<instances, workload, feed, lockKey, orders, trades, positions, ledger, balance,
          pidSeq, eng, sess, events, engine>>

Money(x) == x * CommissionRateDen

Min(a, b) == IF a <= b THEN a ELSE b
Max(a, b) == IF a >= b THEN a ELSE b
Abs(x) == IF x < 0 THEN -x ELSE x

\* The set of all orderings (sequences without repetition) of a finite set.
RECURSIVE Perms(_)
Perms(S) ==
    IF S = {} THEN {<<>>}
    ELSE UNION {{<<x>> \o q : q \in Perms(S \ {x})} : x \in S}

NoOrder ==
    [symbol |-> FeedSymbol,
     otype |-> "market", side |-> "buy", status |-> "none", quantity |-> 0,
     filled_quantity |-> 0, remaining_quantity |-> 0, price |-> None,
     stop_price |-> None, total_amount |-> None, rejection_reason |-> "none",
     notes |-> 0]

NoPosition ==
    [status |-> "none", side |-> "long", quantity |-> 0,
     average_entry_price |-> 0, current_price |-> 0, margin_used |-> 0,
     realized_pnl |-> 0, unrealized_pnl |-> 0, total_pnl |-> 0,
     stop_loss |-> None, take_profit |-> None]

PositionFields == DOMAIN NoPosition

\* An entry of position_cache: the object's attributes, where the object
\* comes from ("loaded": read by a session of its own, "created": the object
\* _create_new_position built) and whether the running session still owns it.
NoCache == [pid |-> 0, row |-> NoPosition, origin |-> "none", live |-> FALSE]

EmptySession ==
    [loaded |-> {}, ord |-> [o \in Orders |-> NoOrder],
     dirty |-> [o \in Orders |-> {}], trades |-> <<>>,
     posLoaded |-> {}, posCreated |-> {}, pos |-> [i \in Pids |-> NoPosition],
     posDirty |-> [i \in Pids |-> {}], acctLoaded |-> FALSE, balance |-> 0, acctDirty |-> FALSE,
     ledger |-> <<>>, lockOrd |-> {}, lockPos |-> {}, t1Open |-> FALSE]

\* What one attempt of an operation wrapped by retry_on_deadlock does: it
\* returns, or raises an exception of some class with some message.
Exceptions ==
    {[class |-> "OperationalError", message |-> "deadlock detected"],
     [class |-> "OperationalError", message |-> "could not serialize access"],
     [class |-> "OperationalError", message |-> "connection reset"],
     [class |-> "DisconnectionError", message |-> "connection reset"],
     [class |-> "IntegrityError", message |-> "violates not-null constraint"],
     [class |-> "ValueError", message |-> "not found or already processed"]}
Returns == {[class |-> "return", message |-> "trade"]}
AttemptOutcomes == Returns \cup Exceptions

\* The activation of retry_on_deadlock's wrapper: func is what the wrapped
\* operation does on its successive executions, attempt the loop variable,
\* slept the delays of the sleeps made so far, result how the call ended.
NoCall ==
    [pc |-> "none", func |-> <<>>, attempt |-> 0, executions |-> 0,
     slept |-> <<>>, result |-> "none"]

\* The engine object of a process that has called initialize() and start():
\* is_running is set.  cancel holds the loop tasks whose cancellation was
\* requested and not yet delivered, starts counts the start() tasks that
\* create_order scheduled, waits / waits_restarted the loop tasks that stop()
\* or close() calls await (without / with a start() since the call), stopped
\* tells that a stop() or close() has returned and start() was not called
\* since it was called.  shared: the instances are the loop tasks of this one
\* object; otherwise every instance is a process with an object of its own.
RunningEngine ==
    [shared |-> FALSE, is_running |-> TRUE, execution_task |-> 0, cancel |-> {},
     starts |-> 0, waits |-> {}, waits_restarted |-> {}, stopped |-> FALSE]

\* ExecutionEngine.__init__ followed by initialize() and start().
NewEngine ==
    [pc |-> "refresh", queue |-> <<>>, exc |-> FALSE,
     price_cache |-> None, position_cache |-> NoCache,
     missing_price_logged |-> {}, clear_task |-> FALSE, call |-> NoCall]

(***************************************************************************)
(* Session and store.  The operators below transform a "world" w: the part *)
(* of the state one engine coroutine can touch between two suspension      *)
(* points: its session w.s, its caches, the store w.db and the events      *)
(* w.ev.  w.exc is a raised exception that has not been caught yet;        *)
(* w.touchOrd / w.touchPos are the rows it had to lock or write.           *)
(***************************************************************************)

\* Session.commit(): the pending unit of work is flushed (an UPDATE sets only
\* the attributes the session changed), the transaction ends and its row
\* locks are released.  expire_on_commit=False keeps the identity map.
Flush(w) ==
    [w EXCEPT
       !.db.orders = [o \in DOMAIN w.db.orders |->
                        [f \in OrderFields |->
                           IF o \in w.s.loaded /\ f \in w.s.dirty[o]
                           THEN w.s.ord[o][f] ELSE w.db.orders[o][f]]],
       !.db.trades = w.db.trades \o w.s.trades,
       !.db.positions = [i \in Pids |->
                           [f \in PositionFields |->
                              IF f \in w.s.posDirty[i]
                              THEN w.s.pos[i][f] ELSE w.db.positions[i][f]]],
       !.db.ledger = w.db.ledger \o w.s.ledger,
       !.db.balance = IF w.s.acctDirty THEN w.s.balance ELSE w.db.balance,
       !.s.dirty = [o \in Orders |-> {}],
       !.s.trades = <<>>,
       !.s.posDirty = [i \in Pids |-> {}],
       !.s.acctDirty = FALSE,
       !.s.ledger = <<>>,
       !.s.lockOrd = {},
       !.s.lockPos = {}]

\* `await session.commit()` called by the engine on the session it was handed:
\* it also ends the transaction that the transaction manager began.
SessionCommit(w) == [Flush(w) EXCEPT !.s.t1Open = FALSE]

\* Assignment to an attribute of a loaded order: part of the unit of work.
SetOrder(w, o, f, v) ==
    IF w.s.ord[o][f] = v THEN w
    ELSE [w EXCEPT !.s.ord[o][f] = v, !.s.dirty[o] = @ \cup {f}]

\* _emit_event
EmitEvent(w, type, o) == [w EXCEPT !.ev = @ \cup {<<type, o>>}]

\* w.raised keeps that an exception was raised, also after it was caught.
Raise(w) == [w EXCEPT !.exc = TRUE, !.raised = TRUE]
Caught(w) == [w EXCEPT !.exc = FALSE]

\* Assignment to the attributes of a position object of the session.  The
\* cache may hold this very object: then the cache shows the assignment.
SetPosition(w, pid, row) ==
    [w EXCEPT !.s.pos[pid] = row,
              !.s.posLoaded = @ \cup {pid},
              !.s.posDirty[pid] = @ \cup {f \in PositionFields :
                                             row[f] # w.s.pos[pid][f]},
              !.cache.row = IF w.cache.live /\ w.cache.pid = pid THEN row ELSE @]

(***************************************************************************)
(* Positions, ledger and fills.                                            *)
(***************************************************************************)

\* round(pnl, 2) on an amount in thousandths.
RoundCents(x) ==
    IF x >= 0 THEN ((x + 5) \div 10) * 10 ELSE -(((-x + 5) \div 10) * 10)

\* CRUDPosition._calculate_unrealized_pnl
CalculateUnrealizedPnl(position, current_price) ==
    LET pnl == IF position.side = "long"
               THEN (Money(current_price) - position.average_entry_price)
                    * position.quantity
               ELSE (position.average_entry_price - Money(current_price))
                    * position.quantity
    IN IF current_price <= 0 \/ position.average_entry_price <= 0
          \/ position.quantity <= 0
       THEN 0
       ELSE IF Abs(RoundCents(pnl)) > Money(PnlLimit) THEN 0
       ELSE RoundCents(pnl)

\* CRUDPosition.update_position_prices on the committed rows: every open
\* position of the instrument gets the price and its P&L, then commit.
UpdatePositionPrices(rows, current_price) ==
    [i \in Pids |->
       IF rows[i].status = "open"
       THEN LET u == CalculateUnrealizedPnl(rows[i], current_price)
            IN [rows[i] EXCEPT !.current_price = Money(current_price),
                               !.unrealized_pnl = u,
                               !.total_pnl = rows[i].realized_pnl + u]
       ELSE rows[i]]

\* _update_position_cache: a session of its own reads the committed open
\* position of (user, instrument); scalar_one_or_none raises on two rows and
\* the exception is logged.
UpdatePositionCache(w) ==
    LET open == {i \in Pids : w.db.positions[i].status = "open"} IN
    IF open = {} THEN [w EXCEPT !.cache = NoCache]
    ELSE IF Cardinality(open) = 1
    THEN LET i == CHOOSE i \in open : TRUE
         IN [w EXCEPT !.cache = [pid |-> i, row |-> w.db.positions[i],
                                 origin |-> "loaded", live |-> FALSE]]
    ELSE w

\* _calculate_realized_pnl
CalculateRealizedPnl(position, trade) ==
    IF position.side = "long"
    THEN (Money(trade.entry_price) - position.average_entry_price) * trade.quantity
    ELSE (position.average_entry_price - Money(trade.entry_price)) * trade.quantity

\* _create_new_position.  The flush hands out the next position id; w.blocked
\* marks a run that would need more ids than the model has.
CreateNewPosition(w, o, trade) ==
    IF w.pidSeq >= MaxPositions THEN [w EXCEPT !.blocked = TRUE]
    ELSE LET pid == w.pidSeq + 1
             row == [NoPosition EXCEPT
                       !.status = "open",
                       !.side = IF w.s.ord[o].side = "buy" THEN "long" ELSE "short",
                       !.quantity = trade.quantity,
                       !.average_entry_price = Money(trade.entry_price),
                       !.current_price = Money(trade.entry_price),
                       !.margin_used = trade.margin_used]
             w1 == [w EXCEPT !.pidSeq = pid,
                             !.s.pos[pid] = row,
                             !.s.posLoaded = @ \cup {pid},
                             !.s.posCreated = @ \cup {pid},
                             !.s.posDirty[pid] = PositionFields,
                             !.cache = [pid |-> pid, row |-> row,
                                        origin |-> "created", live |-> TRUE]]
         IN EmitEvent(w1, "position_opened", o)

\* An average entry price that is the mean of the old average and the price
\* of the trade, whatever the quantities.
MeanOfPrices(lp, trade) ==
    (lp.average_entry_price + Money(trade.entry_price)) \div 2

\* The increase branch of _update_existing_position: the new average entry
\* price, new_total_cost / new_quantity.
NewAverage(lp, trade) ==
    LET new_quantity == lp.quantity + trade.quantity
        new_total_cost == lp.quantity * lp.average_entry_price + trade.amount
    IN new_total_cost \div new_quantity

\* _update_existing_position.  session.get(..., with_for_update=True) locks
\* the row and returns the object of the identity map when there is one.  An
\* object this session created still carries the float column defaults, so
\* total_volume += trade.amount (float + Decimal) raises TypeError.
UpdateExistingPosition(w, pid, o, trade) ==
    LET inMap == pid \in w.s.posLoaded
        lp == IF inMap THEN w.s.pos[pid] ELSE w.db.positions[pid]
        w1 == [w EXCEPT !.s.pos[pid] = lp,
                        !.s.posLoaded = @ \cup {pid},
                        !.s.lockPos = @ \cup {pid},
                        !.touchPos = @ \cup {pid}]
        side == w.s.ord[o].side
        is_increasing == \/ lp.side = "long" /\ side = "buy"
                         \/ lp.side = "short" /\ side = "sell"
        new_quantity == lp.quantity + trade.quantity
        realized_pnl == CalculateRealizedPnl(lp, trade)
        w2 == IF is_increasing
              THEN SetPosition(w1, pid,
                     [lp EXCEPT !.average_entry_price = NewAverage(lp, trade),
                                !.quantity = new_quantity,
                                !.margin_used = @ + trade.margin_used])
              ELSE IF trade.quantity >= lp.quantity
              THEN EmitEvent(SetPosition(w1, pid,
                               [lp EXCEPT !.realized_pnl = @ + realized_pnl,
                                          !.status = "closed",
                                          !.quantity = 0]),
                             "position_closed", o)
              ELSE EmitEvent(SetPosition(w1, pid,
                               [lp EXCEPT !.realized_pnl = @ + realized_pnl,
                                          !.quantity = @ - trade.quantity,
                                          !.margin_used = @ - trade.margin_used]),
                             "position_updated", o)
    IN IF ~inMap /\ lp.status = "none" THEN Raise(w)
       ELSE IF lp.status # "open" THEN w1
       ELSE IF pid \in w.s.posCreated THEN Raise(w2)
       ELSE w2

\* _update_position
UpdatePosition(w, o, trade) ==
    IF w.cache.origin # "none" /\ w.cache.row.status = "open"
    THEN UpdateExistingPosition(w, w.cache.pid, o, trade)
    ELSE CreateNewPosition(w, o, trade)

\* _update_account_ledger
UpdateAccountLedger(w, o, trade) ==
    LET balance_before == IF w.s.acctLoaded THEN w.s.balance ELSE w.db.balance
        net_amount == (IF w.s.ord[o].side = "buy" THEN trade.amount ELSE -trade.amount)
                      - trade.commission
        balance_after == balance_before + net_amount
        pnl == [entry_type |-> "pnl", order |-> o, amount |-> net_amount,
                balance_before |-> balance_before, balance_after |-> balance_after]
        fee == [entry_type |-> "fee", order |-> o, amount |-> -trade.commission,
                balance_before |-> balance_after,
                balance_after |-> balance_after - trade.commission]
    IN [w EXCEPT !.s.acctLoaded = TRUE,
                 !.s.acctDirty = TRUE,
                 !.s.balance = IF trade.commission > 0
                               THEN balance_after - trade.commission
                               ELSE balance_after,
                 !.s.ledger = IF trade.commission > 0
                              THEN @ \o <<pnl, fee>> ELSE Append(@, pnl)]

\* An order update that leaves remaining_quantity as it was.
RemainingKept(order, filled) == order.remaining_quantity

\* The order update of _fill_order: remaining_quantity after the fill.
RemainingAfterFill(order, filled) == order.quantity - filled

\* _fill_order
FillOrder(w, o, fill_quantity, fill_price) ==
    LET locked_order == w.s.ord[o]
        w0 == [w EXCEPT !.s.lockOrd = @ \cup {o}, !.touchOrd = @ \cup {o}]
        fill_amount == Money(fill_quantity * fill_price)
        commission == fill_amount \div CommissionRateDen
        trade == [order |-> o, side |-> locked_order.side,
                  quantity |-> fill_quantity, entry_price |-> fill_price,
                  amount |-> fill_amount, commission |-> commission,
                  margin_used |-> fill_amount]
        w1 == [w0 EXCEPT !.s.trades = Append(@, trade)]
        filled == locked_order.filled_quantity + fill_quantity
        remaining == RemainingAfterFill(locked_order, filled)
        w2 == SetOrder(SetOrder(w1, o, "filled_quantity", filled),
                       o, "remaining_quantity", remaining)
        w3 == SetOrder(w2, o, "status",
                       IF remaining <= 0 THEN "filled" ELSE "partial")
        w4 == UpdatePosition(w3, o, trade)
        w5 == UpdateAccountLedger(w4, o, trade)
        w6 == UpdatePositionCache(w5)
        w7 == EmitEvent(w6, IF w3.s.ord[o].status = "filled"
                            THEN "order_filled" ELSE "order_partially_filled", o)
    IN IF locked_order.status # "pending" THEN w0
       ELSE IF w4.exc \/ w4.blocked THEN w4
       ELSE w7

\* _reject_order
RejectOrder(w, o, reason) ==
    LET w1 == SetOrder(SetOrder(w, o, "status", "rejected"),
                       o, "rejection_reason", reason)
        w2 == SessionCommit([w1 EXCEPT !.touchOrd = @ \cup {o}])
    IN EmitEvent(w2, "order_rejected", o)

\* _execute_market_order
ExecuteMarketOrder(w, o, current_price) ==
    LET r == FillOrder(w, o, w.s.ord[o].quantity, current_price)
    IN IF r.exc THEN RejectOrder(Caught(r), o, "market_execution_error") ELSE r

\* _check_limit_order: an exception of the fill is only logged.
CheckLimitOrder(w, o, current_price) ==
    LET order == w.s.ord[o]
        should_execute == IF order.side = "buy"
                          THEN current_price <= order.price
                          ELSE current_price >= order.price
        execution_price == IF order.side = "buy"
                           THEN Min(current_price, order.price)
                           ELSE Max(current_price, order.price)
    IN IF should_execute
       THEN Caught(FillOrder(w, o, order.remaining_quantity, execution_price))
       ELSE w

\* The trigger condition of _check_stop_order and _check_stop_limit_order.
ShouldTrigger(order, current_price) ==
    IF order.side = "buy"
    THEN current_price >= order.stop_price
    ELSE current_price <= order.stop_price

\* _check_stop_order
CheckStopOrder(w, o, current_price) ==
    LET order == w.s.ord[o]
        w1 == SetOrder(SetOrder(w, o, "otype", "market"), o, "price", None)
        w2 == SessionCommit([w1 EXCEPT !.touchOrd = @ \cup {o}])
        w3 == ExecuteMarketOrder(w2, o, current_price)
    IN IF ShouldTrigger(order, current_price)
       THEN EmitEvent(w3, "order_filled", o)
       ELSE w

\* _check_stop_limit_order
CheckStopLimitOrder(w, o, current_price) ==
    LET order == w.s.ord[o]
        w1 == SetOrder(SetOrder(w, o, "otype", "limit"), o, "stop_price", None)
        w2 == SessionCommit([w1 EXCEPT !.touchOrd = @ \cup {o}])
    IN IF ShouldTrigger(order, current_price)
       THEN EmitEvent(w2, "order_filled", o)
       ELSE w

\* The inner try block of _process_order, run with the lock held: re-fetch,
\* status check, price lookup and dispatch by order type.  The first order
\* seen while the symbol is not in _missing_price_logged is left alone; with
\* the symbol logged and no price, current_price_data['price'] raises.
ProcessOrderBody(w, o) ==
    LET fresh_order == w.s.ord[o]
        symbol == fresh_order.symbol
        current_price == IF symbol = FeedSymbol THEN w.price ELSE None
    IN IF fresh_order.status # "pending" THEN w
       ELSE IF symbol \notin w.logged
       THEN [w EXCEPT !.logged = @ \cup {symbol}, !.clear = TRUE]
       ELSE IF current_price = None THEN Raise(w)
       ELSE IF fresh_order.otype = "market"
       THEN ExecuteMarketOrder(w, o, current_price)
       ELSE IF fresh_order.otype = "limit"
       THEN CheckLimitOrder(w, o, current_price)
       ELSE IF fresh_order.otype = "stop"
       THEN CheckStopOrder(w, o, current_price)
       ELSE CheckStopLimitOrder(w, o, current_price)

(***************************************************************************)
(* The state seen as a world by engine p, and a world written back.        *)
(***************************************************************************)

World(p) ==
    [s |-> sess[p], cache |-> eng[p].position_cache,
     price |-> eng[p].price_cache,
     logged |-> eng[p].missing_price_logged, clear |-> eng[p].clear_task,
     ev |-> events,
     db |-> [orders |-> orders, trades |-> trades, positions |-> positions,
             ledger |-> ledger, balance |-> balance],
     pidSeq |-> pidSeq, exc |-> FALSE, raised |-> FALSE, blocked |-> FALSE,
     touchOrd |-> {}, touchPos |-> {}]

\* Rows locked (SELECT ... FOR UPDATE, or written and not yet committed) by
\* the sessions of the engines other than p.
LockedOrdersOfOthers(p) == UNION {sess[q].lockOrd : q \in instances \ {p}}
LockedPositionsOfOthers(p) == UNION {sess[q].lockPos : q \in instances \ {p}}
LockedOrders == UNION {sess[q].lockOrd : q \in instances}
LockedPositions == UNION {sess[q].lockPos : q \in instances}

\* w can run to its end without waiting for a row lock of another session.
Runs(p, w) ==
    /\ ~w.blocked
    /\ w.touchOrd \cap LockedOrdersOfOthers(p) = {}
    /\ w.touchPos \cap LockedPositionsOfOthers(p) = {}

\* The caches belong to the engine object: the loop tasks of one object see
\* what task p wrote to them.
Share(p, e) ==
    IF ~engine.shared THEN e
    ELSE [q \in Engines |->
            [e[q] EXCEPT !.price_cache = e[p].price_cache,
                         !.position_cache = e[p].position_cache,
                         !.missing_price_logged = e[p].missing_price_logged,
                         !.clear_task = e[p].clear_task]]

\* The store, the events and engine p's session and caches after w; the
\* engine continues at pc with the given queue.
Store(p, w, pc, queue) ==
    /\ orders' = w.db.orders
    /\ trades' = w.db.trades
    /\ positions' = w.db.positions
    /\ ledger' = w.db.ledger
    /\ balance' = w.db.balance
    /\ pidSeq' = w.pidSeq
    /\ events' = w.ev
    /\ sess' = [sess EXCEPT ![p] = w.s]
    /\ eng' = Share(p, [eng EXCEPT ![p].pc = pc, ![p].queue = queue,
                                    ![p].exc = w.exc,
                                    ![p].price_cache = w.price,
                                    ![p].position_cache = w.cache,
                                    ![p].missing_price_logged = w.logged,
                                    ![p].clear_task = w.clear])

(***************************************************************************)
(* Orders created by the engine itself (stop loss, take profit,            *)
(* liquidation).                                                           *)
(***************************************************************************)

\* The Order object of _trigger_stop_loss, _trigger_take_profit and
\* _liquidate_position: remaining_quantity, total_amount and remaining_amount
\* are not given and have no default.  notes names the position the order
\* closes (0 in the orders of users).
SyntheticOrder(position) ==
    [NoOrder EXCEPT !.otype = "market",
                    !.side = IF position.side = "long" THEN "sell" ELSE "buy",
                    !.status = "pending",
                    !.quantity = position.quantity,
                    !.remaining_quantity = None,
                    !.total_amount = None]

\* No constraint on the columns of the row.
NoConstraint(row) == TRUE

\* The NOT NULL constraints of the orders table on the columns without a
\* default (models/order.py).
NotNull(row) == row.remaining_quantity # None /\ row.total_amount # None

\* session.add(order); commit; _execute_market_order of the three paths.  The
\* INSERT of a row that violates NOT NULL raises IntegrityError, caught by
\* the caller.  A stored order has commission_rate as a float default, so the
\* fill raises TypeError before the Trade is built and the order is rejected.
ExecuteSynthetic(w, position) ==
    LET row == [SyntheticOrder(position) EXCEPT !.notes = w.cache.pid]
        o == Len(w.db.orders) + 1
        rejected == [row EXCEPT !.status = "rejected",
                                !.rejection_reason = "market_execution_error"]
    IN IF ~NotNull(row) THEN Raise(w)
       ELSE IF o > MaxOrders THEN [w EXCEPT !.blocked = TRUE]
       ELSE IF w.price = None
       THEN [w EXCEPT !.db.orders = Append(@, row)]
       ELSE EmitEvent([w EXCEPT !.db.orders = Append(@, rejected)],
                      "order_rejected", o)

\* _should_trigger_stop_loss
ShouldTriggerStopLoss(position, current_price) ==
    IF position.side = "long"
    THEN Money(current_price) <= position.stop_loss
    ELSE Money(current_price) >= position.stop_loss

\* _should_trigger_take_profit
ShouldTriggerTakeProfit(position, current_price) ==
    IF position.side = "long"
    THEN Money(current_price) >= position.take_profit
    ELSE Money(current_price) <= position.take_profit

\* _trigger_stop_loss / _trigger_take_profit
TriggerClose(w, type) ==
    LET r == ExecuteSynthetic(w, w.cache.row)
    IN IF r.exc \/ r.blocked THEN Caught(r)
       ELSE EmitEvent(r, type, w.cache.pid)

\* _liquidate_position
LiquidatePosition(w) ==
    LET r == ExecuteSynthetic(w, w.cache.row)
    IN IF r.exc \/ r.blocked THEN Caught(r)
       ELSE EmitEvent([r EXCEPT !.cache.row.status = "liquidated"],
                      "position_liquidated", w.cache.pid)

(***************************************************************************)
(* One iteration of _execution_loop, engine p.                             *)
(***************************************************************************)

OpenPositions == {i \in Pids : positions[i].status = "open"}

Continue(queue) == IF queue = <<>> THEN "commit" ELSE "acquire"

\* The error leaves the tick: the loop sleeps and starts a new tick.
LoopBackOff(queue) == "refresh"

\* Where the task goes on after the except block of _process_order: the
\* handler returns, and the for loop of _process_pending_orders_operation
\* takes the next order.
AfterException(queue) == Continue(Tail(queue))

\* _update_price_cache with _update_positions_with_latest_prices.  The cache
\* keys are (UUID, UUID), the keys looked up here are (str, str): the
\* position cache is never refreshed by this step.
UpdatePriceCache(p) ==
    /\ p \in instances
    /\ p \notin engine.cancel
    /\ engine.is_running
    /\ eng[p].pc = "refresh"
    /\ LET price == IF feed # None THEN feed ELSE eng[p].price_cache IN
       /\ price # None => OpenPositions \cap LockedPositionsOfOthers(p) = {}
       /\ positions' = IF price # None
                       THEN UpdatePositionPrices(positions, price)
                       ELSE positions
       /\ eng' = Share(p, [eng EXCEPT ![p].price_cache = price,
                                       ![p].pc = "select"])
    /\ UNCHANGED <<engine, instances, workload, feed, lockKey, orders, trades, ledger, balance,
                   pidSeq, sess, events>>

\* transaction_manager.transaction() and the SELECT of the pending orders in
\* _process_pending_orders_operation; the rows come in an unspecified order.
SelectPendingOrders(p) ==
    /\ p \in instances
    /\ p \notin engine.cancel
    /\ eng[p].pc = "select"
    /\ LET pending == {o \in DOMAIN orders : orders[o].status = "pending"} IN
       \E queue \in Perms(pending) :
          /\ sess' = [sess EXCEPT ![p] =
                        [EmptySession EXCEPT
                           !.t1Open = TRUE,
                           !.loaded = pending,
                           !.ord = [o \in Orders |-> IF o \in pending
                                                     THEN orders[o] ELSE NoOrder]]]
          /\ eng' = [eng EXCEPT ![p].queue = queue, ![p].pc = Continue(queue)]
    /\ UNCHANGED <<engine, instances, workload, feed, lockKey, orders, trades, positions, ledger,
                   balance, pidSeq, events>>

\* _acquire_order_lock in _process_order: SET NX EX; the order is skipped
\* when the key exists.
AcquireLock(p) ==
    /\ p \in instances
    /\ p \notin engine.cancel
    /\ eng[p].pc = "acquire"
    /\ LET o == Head(eng[p].queue) IN
       IF lockKey[o] # 0
       THEN /\ eng' = [eng EXCEPT ![p].queue = Tail(@),
                                  ![p].pc = Continue(Tail(eng[p].queue))]
            /\ UNCHANGED lockKey
       ELSE /\ lockKey' = [lockKey EXCEPT ![o] = p]
            /\ eng' = [eng EXCEPT ![p].pc = "body"]
    /\ UNCHANGED <<engine, instances, workload, feed, orders, trades, positions, ledger, balance,
                   pidSeq, sess, events>>

\* The inner try block of _process_order.
ProcessOrder(p) ==
    /\ p \in instances
    /\ p \notin engine.cancel
    /\ eng[p].pc = "body"
    /\ LET w == ProcessOrderBody(World(p), Head(eng[p].queue)) IN
       /\ Runs(p, w)
       /\ Store(p, w, "finally", eng[p].queue)
    /\ UNCHANGED <<engine, instances, workload, feed, lockKey>>

\* The finally block of _process_order: _release_order_lock deletes the key.
ReleaseLock(p) ==
    /\ p \in instances
    /\ p \notin engine.cancel
    /\ eng[p].pc = "finally"
    /\ lockKey' = [lockKey EXCEPT ![Head(eng[p].queue)] = 0]
    /\ eng' = IF eng[p].exc
              THEN [eng EXCEPT ![p].pc = "except"]
              ELSE [eng EXCEPT ![p].queue = Tail(@),
                               ![p].pc = Continue(Tail(eng[p].queue))]
    /\ UNCHANGED <<engine, instances, workload, feed, orders, trades, positions, ledger, balance,
                   pidSeq, sess, events>>

\* The except block of _process_order: the order is rejected and the key is
\* deleted once more.
ExceptBlock(p) ==
    LET o == Head(eng[p].queue)
        w == RejectOrder(World(p), o, "processing_error")
    IN /\ Runs(p, w)
       /\ Store(p, w, AfterException(eng[p].queue), Tail(eng[p].queue))
       /\ lockKey' = [lockKey EXCEPT ![o] = 0]

HandleException(p) ==
    /\ p \in instances
    /\ p \notin engine.cancel
    /\ eng[p].pc = "except"
    /\ ExceptBlock(p)
    /\ UNCHANGED <<engine, instances, workload, feed>>

\* The end of transaction_manager.transaction(): transaction.commit() on the
\* transaction begun at the start.  When a commit inside the tick has already
\* ended that transaction, the call raises, and closing the session rolls
\* back what was done since.  The objects of the session become detached.
TickCommit(p) ==
    /\ p \in instances
    /\ p \notin engine.cancel
    /\ eng[p].pc = "commit"
    /\ LET w == IF sess[p].t1Open THEN Flush(World(p)) ELSE World(p) IN
       /\ orders' = w.db.orders
       /\ trades' = w.db.trades
       /\ positions' = w.db.positions
       /\ ledger' = w.db.ledger
       /\ balance' = w.db.balance
    /\ sess' = [sess EXCEPT ![p] = EmptySession]
    /\ eng' = Share(p, [eng EXCEPT ![p].pc = "stops",
                                    ![p].position_cache.live = FALSE])
    /\ UNCHANGED <<engine, instances, workload, feed, lockKey, pidSeq, events>>

\* The cached position can be used by the steps that read position.instrument:
\* the relationship is loaded for an object read by _update_position_cache,
\* not for one built by _create_new_position (the lazy load raises).
Usable(cache) == cache.origin = "loaded" /\ cache.row.status = "open"

\* _process_stop_orders
ProcessStopOrders(p) ==
    /\ p \in instances
    /\ p \notin engine.cancel
    /\ eng[p].pc = "stops"
    /\ LET w0 == World(p)
           position == w0.cache.row
           w1 == IF /\ Usable(w0.cache)
                    /\ w0.price # None
                    /\ position.stop_loss # None
                    /\ ShouldTriggerStopLoss(position, w0.price)
                 THEN TriggerClose(w0, "stop_loss_triggered")
                 ELSE w0
           w2 == IF /\ Usable(w0.cache)
                    /\ w0.price # None
                    /\ position.take_profit # None
                    /\ ShouldTriggerTakeProfit(position, w0.price)
                 THEN TriggerClose(w1, "take_profit_triggered")
                 ELSE w1
       IN Store(p, w2, "positions", <<>>)
    /\ UNCHANGED <<engine, instances, workload, feed, lockKey>>

\* _update_positions
UpdatePositions(p) ==
    /\ p \in instances
    /\ p \notin engine.cancel
    /\ eng[p].pc = "positions"
    /\ LET revalue == Usable(eng[p].position_cache) /\ eng[p].price_cache # None IN
       /\ revalue => OpenPositions \cap LockedPositionsOfOthers(p) = {}
       /\ positions' = IF revalue
                       THEN UpdatePositionPrices(positions, eng[p].price_cache)
                       ELSE positions
       /\ eng' = Share(p, [eng EXCEPT
                    ![p].pc = "risk",
                    ![p].position_cache.row.current_price =
                        IF revalue THEN Money(eng[p].price_cache) ELSE @])
    /\ UNCHANGED <<engine, instances, workload, feed, lockKey, orders, trades, ledger, balance,
                   pidSeq, sess, events>>

\* The margin-call test of _check_risk_management: margin_ratio <= -0.8 with
\* margin_ratio a Decimal and -0.8 a float.  The comparison is exact and the
\* float nearest to -0.8 lies below -8/10, so a ratio of exactly -8/10 does
\* not pass.
MarginRatioAtThreshold(position) ==
    10 * position.unrealized_pnl < -8 * position.margin_used

\* _check_risk_management.  For an object built by _create_new_position,
\* unrealized_pnl is a float default and the division by the Decimal
\* margin_used raises; the exception is logged.
CheckRiskManagement(p) ==
    /\ p \in instances
    /\ p \notin engine.cancel
    /\ eng[p].pc = "risk"
    /\ LET w0 == World(p)
           position == w0.cache.row
           w1 == IF /\ w0.cache.origin = "loaded"
                    /\ position.status = "open"
                    /\ position.margin_used > 0
                 THEN IF position.total_pnl <= -position.margin_used
                      THEN LiquidatePosition(w0)
                      ELSE IF MarginRatioAtThreshold(position)
                      THEN EmitEvent(w0, "margin_call", w0.cache.pid)
                      ELSE w0
                 ELSE w0
       IN Store(p, w1, "refresh", <<>>)
    /\ UNCHANGED <<engine, instances, workload, feed, lockKey>>

(***************************************************************************)
(* The environment: the user's requests, the price feed, time.             *)
(***************************************************************************)

\* One of the bounded events of the environment happens.
EnvironmentEvent ==
    /\ workload.events > 0
    /\ workload' = [workload EXCEPT !.events = @ - 1]

\* What an order request may look like: type, side and quantity; limit and
\* stop orders carry the one limit or stop price of the model.
OrderShapes ==
    [symbol : Symbols, otype : OrderTypes, side : OrderSides, quantity : Quantities]

\* POST /orders (create_order).  Without a limit price total_amount is
\* computed from the instrument's stored price, 0.0 by default.  An engine
\* reads the orders table only in its SELECT of the pending orders, so the
\* request is taken right before such a SELECT.
PlaceOrder(symbol, otype, side, quantity, price, stop_price) ==
    /\ Len(orders) < workload.max
    /\ [symbol |-> symbol, otype |-> otype, side |-> side, quantity |-> quantity]
          \in workload.shapes
    /\ \/ instances = {}
       \/ \E p \in instances : eng[p].pc = "select"
    /\ engine' = IF engine.is_running THEN engine
                 ELSE [engine EXCEPT !.starts = @ + 1]
    /\ orders' = Append(orders,
          [NoOrder EXCEPT
             !.symbol = symbol,
             !.otype = otype, !.side = side, !.status = "pending",
             !.quantity = quantity, !.remaining_quantity = quantity,
             !.price = IF otype \in {"limit", "stop_limit"} THEN price ELSE None,
             !.stop_price = IF otype \in {"stop", "stop_limit"}
                            THEN stop_price ELSE None,
             !.total_amount = IF otype \in {"limit", "stop_limit"}
                              THEN Money(quantity * price) ELSE 0])
    /\ UNCHANGED <<instances, workload, feed, lockKey, trades, positions, ledger, balance,
                   pidSeq, eng, sess, events>>

\* DELETE /orders/{id} (CRUDOrder.cancel_order): one UPDATE ... WHERE status
\* IN (pending, partial), which waits for a row lock and then sees the
\* committed row.  The engines read the row in their SELECT and process an
\* order from their snapshot, so the request is taken right before a SELECT
\* or right before the order is processed.
CancelOrder(o) ==
    /\ o \in DOMAIN orders
    /\ o \notin LockedOrders
    /\ \E p \in instances : \/ eng[p].pc = "select"
                            \/ eng[p].pc = "body" /\ Head(eng[p].queue) = o
    /\ orders[o].status \in {"pending", "partial"}
    /\ orders' = [orders EXCEPT ![o].status = "cancelled"]
    /\ EnvironmentEvent
    /\ UNCHANGED <<engine, instances, feed, lockKey, trades, positions, ledger, balance,
                   pidSeq, eng, sess, events>>

\* The steps of an engine that read or write the positions table.
PositionSteps == {"refresh", "body", "except", "commit", "positions"}

\* POST /positions/{id}/close (close_position), taken right before a step
\* of an engine that reads or writes positions: CRUDPosition.close_position
\* commits the position; the balance update that follows adds a float to the
\* Decimal balance and raises, so the account and the ledger stay as they are.
\* quantity None: no close_quantity in the request, the whole position.
ClosePosition(pid, quantity) ==
    /\ positions[pid].status = "open"
    /\ pid \notin LockedPositions
    /\ \E p \in instances : eng[p].pc \in PositionSteps
    /\ quantity \in workload.closes
    /\ LET position == positions[pid]
           close_quantity == IF quantity = None THEN position.quantity
                             ELSE Min(quantity, position.quantity)
           realized_pnl ==
               IF position.side = "long"
               THEN (position.current_price - position.average_entry_price)
                    * close_quantity
               ELSE (position.average_entry_price - position.current_price)
                    * close_quantity
           closed == IF close_quantity >= position.quantity
                     THEN [position EXCEPT !.status = "closed", !.quantity = 0,
                                           !.unrealized_pnl = 0]
                     ELSE [position EXCEPT !.quantity = @ - close_quantity]
       IN positions' = [positions EXCEPT ![pid] =
             [closed EXCEPT !.realized_pnl = @ + realized_pnl,
                            !.total_pnl = closed.realized_pnl + realized_pnl
                                          + closed.unrealized_pnl]]
    /\ EnvironmentEvent
    /\ UNCHANGED <<engine, instances, feed, lockKey, orders, trades, ledger, balance,
                   pidSeq, eng, sess, events>>

\* The market-data service publishes latest_price:<symbol>.  The key is read
\* only by _update_price_cache, so a publication is taken right before one.
PublishPrice(v) ==
    /\ v \in workload.prices
    /\ v # feed
    /\ \E p \in instances : eng[p].pc = "refresh"
    /\ feed' = v
    /\ workload.publications > 0
    /\ workload' = [workload EXCEPT !.publications = @ - 1]
    /\ UNCHANGED <<engine, instances, lockKey, orders, trades, positions, ledger,
                   balance, pidSeq, eng, sess, events>>

\* The 30 s expiry of order_lock:<id>, taken right before the key is looked
\* at: by an acquisition or by a release.
LockExpire(o) ==
    /\ lockKey[o] # 0
    /\ \E p \in instances : eng[p].pc \in {"acquire", "finally", "except"}
    /\ lockKey' = [lockKey EXCEPT ![o] = 0]
    /\ EnvironmentEvent
    /\ UNCHANGED <<engine, instances, feed, orders, trades, positions, ledger, balance,
                   pidSeq, eng, sess, events>>

\* _clear_missing_price_log, 300 s after it was scheduled; the set is read
\* only when an order is processed.
ClearMissingPriceLog(p) ==
    /\ p \in instances
    /\ eng[p].clear_task
    /\ eng[p].pc = "body"
    /\ eng' = Share(p, [eng EXCEPT ![p].missing_price_logged = {},
                                    ![p].clear_task = FALSE])
    /\ EnvironmentEvent
    /\ UNCHANGED <<engine, instances, feed, lockKey, orders, trades, positions, ledger,
                   balance, pidSeq, sess, events>>

\* POST /test/trigger-stop-loss and POST /test/trigger-take-profit: the
\* endpoint calls _trigger_stop_loss / _trigger_take_profit of the engine of
\* its process for the position the cache holds under the key; without a
\* cached position the call returns at once.  The call runs between two
\* steps of the loop; it is taken where the loop itself makes the call.
TestTriggerStopLoss(p) ==
    /\ p \in instances
    /\ eng[p].pc = "stops"
    /\ IF eng[p].position_cache.origin = "none"
       THEN UNCHANGED <<orders, trades, positions, ledger, balance, pidSeq,
                        events, sess, eng>>
       ELSE Store(p, TriggerClose(World(p), "stop_loss_triggered"),
                  eng[p].pc, eng[p].queue)
    /\ EnvironmentEvent
    /\ UNCHANGED <<engine, instances, feed, lockKey>>

TestTriggerTakeProfit(p) ==
    /\ p \in instances
    /\ eng[p].pc = "stops"
    /\ IF eng[p].position_cache.origin = "none"
       THEN UNCHANGED <<orders, trades, positions, ledger, balance, pidSeq,
                        events, sess, eng>>
       ELSE Store(p, TriggerClose(World(p), "take_profit_triggered"),
                  eng[p].pc, eng[p].queue)
    /\ EnvironmentEvent
    /\ UNCHANGED <<engine, instances, feed, lockKey>>

(***************************************************************************)
(* retry_on_deadlock: the wrapper around _fill_order and                   *)
(* _update_existing_position.                                              *)
(***************************************************************************)

\* TransactionManager._is_deadlock_error: a keyword of the list occurs in
\* the text of the error.
IsDeadlockError(e) ==
    e.message \in {"deadlock detected", "could not serialize access"}

\* except (OperationalError, DisconnectionError, SQLTimeoutError)
IsTransientClass(e) == e.class \in {"OperationalError", "DisconnectionError"}

\* A retry after every error of the three classes.
RetryOnAnyTransient(e, attempt, max_retries) ==
    IsTransientClass(e) /\ attempt < max_retries

\* The condition under which the wrapper sleeps and runs the operation again.
ShouldRetry(e, attempt, max_retries) ==
    IsTransientClass(e) /\ IsDeadlockError(e) /\ attempt < max_retries

\* One pass of the body of "for attempt in range(max_retries + 1)": the
\* operation is awaited; its result is returned, a deadlock error with a
\* retry left leads to the sleep, any other error of the three classes
\* breaks out of the loop to "raise TransactionRetryError", and every other
\* exception is raised again as it is.
RetryAttempt(p) ==
    /\ p \in instances
    /\ eng[p].call.pc = "try"
    /\ LET call == eng[p].call
           e == call.func[call.executions + 1]
           ran == [call EXCEPT !.executions = @ + 1]
       IN eng' = [eng EXCEPT ![p].call =
                    IF e.class = "return"
                    THEN [ran EXCEPT !.pc = "done", !.result = "returned"]
                    ELSE IF ShouldRetry(e, call.attempt, MaxRetries)
                    THEN [ran EXCEPT !.pc = "sleep"]
                    ELSE IF IsTransientClass(e)
                    THEN [ran EXCEPT !.pc = "done",
                                     !.result = "TransactionRetryError"]
                    ELSE [ran EXCEPT !.pc = "done", !.result = "raised"]]
    /\ UNCHANGED <<engine, instances, workload, feed, lockKey, orders, trades, positions,
                   ledger, balance, pidSeq, sess, events>>

\* await asyncio.sleep(deadlock_retry_delay * 2 ** attempt); continue.  When
\* the range is used up the loop ends and TransactionRetryError is raised.
RetrySleep(p) ==
    /\ p \in instances
    /\ eng[p].call.pc = "sleep"
    /\ LET call == eng[p].call
           slept == Append(call.slept, DeadlockRetryDelay * (2 ^ call.attempt))
       IN eng' = [eng EXCEPT ![p].call =
                    IF call.attempt + 1 <= MaxRetries
                    THEN [call EXCEPT !.pc = "try", !.attempt = @ + 1,
                                      !.slept = slept]
                    ELSE [call EXCEPT !.pc = "done", !.attempt = @ + 1,
                                      !.slept = slept,
                                      !.result = "TransactionRetryError"]]
    /\ UNCHANGED <<engine, instances, workload, feed, lockKey, orders, trades, positions,
                   ledger, balance, pidSeq, sess, events>>

(***************************************************************************)
(* start(), stop(), close() and the execution-loop task.                   *)
(***************************************************************************)

\* A slot for a new loop task: no live task and no task a stop() still awaits.
FreeSlots == Engines \ (instances \cup engine.waits \cup engine.waits_restarted)

\* ExecutionEngine.start(): nothing when is_running is set; otherwise
\* is_running is set and a new loop task is created.  There is no await
\* between the test and the assignments.
StartCall(e) ==
    IF e.is_running
    THEN /\ engine' = [e EXCEPT !.stopped = FALSE,
                                !.waits = {},
                                !.waits_restarted = @ \cup e.waits]
         /\ UNCHANGED <<instances, eng, sess>>
    ELSE \E q \in FreeSlots :
            /\ \A r \in FreeSlots : q <= r
            /\ engine' = [e EXCEPT !.is_running = TRUE,
                                   !.execution_task = q,
                                   !.stopped = FALSE,
                                   !.waits = {},
                                   !.waits_restarted = @ \cup e.waits]
            /\ instances' = instances \cup {q}
            /\ eng' = [eng EXCEPT ![q].pc = "refresh", ![q].queue = <<>>,
                                  ![q].exc = FALSE]
            /\ sess' = [sess EXCEPT ![q] = EmptySession]

\* POST /execution/start: rejected when the engine is running.
StartEngine ==
    /\ ~engine.is_running
    /\ StartCall(engine)
    /\ EnvironmentEvent
    /\ UNCHANGED <<feed, lockKey, orders, trades, positions, ledger, balance,
                   pidSeq, events>>

\* The task asyncio.create_task(execution_engine.start()) of create_order.
RunScheduledStart ==
    /\ engine.starts > 0
    /\ StartCall([engine EXCEPT !.starts = @ - 1])
    /\ UNCHANGED <<workload, feed, lockKey, orders, trades, positions, ledger,
                   balance, pidSeq, events>>

\* stop() and close(): is_running is cleared, the task is cancelled and
\* awaited.  POST /execution/stop calls stop() when the engine is running,
\* the shutdown of the application calls close() whatever the state.
StopEngine(by_api) ==
    /\ by_api => engine.is_running
    /\ LET task == engine.execution_task IN
       engine' = IF task \in instances
                 THEN [engine EXCEPT !.is_running = FALSE,
                                     !.cancel = @ \cup {task},
                                     !.waits = @ \cup {task}]
                 ELSE [engine EXCEPT !.is_running = FALSE, !.stopped = TRUE]
    /\ EnvironmentEvent
    /\ UNCHANGED <<instances, feed, lockKey, orders, trades, positions, ledger,
                   balance, pidSeq, eng, sess, events>>

\* The cancelled task resumes with CancelledError, which no "except
\* Exception" catches: a finally block of _process_order deletes the lock
\* key (the deletion under way in the finally block may or may not have
\* happened), the session is closed without a commit, the task ends.
CancelTask(p, released) ==
    /\ p \in instances
    /\ p \in engine.cancel
    /\ lockKey' = IF \/ eng[p].pc = "body"
                     \/ eng[p].pc = "finally" /\ released
                  THEN [lockKey EXCEPT ![Head(eng[p].queue)] = 0]
                  ELSE lockKey
    /\ instances' = instances \ {p}
    /\ engine' = [engine EXCEPT !.cancel = @ \ {p}]
    /\ sess' = [sess EXCEPT ![p] = EmptySession]
    /\ eng' = Share(p, [eng EXCEPT ![p].pc = "refresh", ![p].queue = <<>>,
                                    ![p].exc = FALSE,
                                    ![p].position_cache.live = FALSE])
    /\ UNCHANGED <<workload, feed, orders, trades, positions, ledger, balance,
                   pidSeq, events>>

\* The task is cancelled while it awaits _release_order_lock in the except
\* block of _process_order: the bare "except: pass" around that call catches
\* CancelledError, the handler returns and the task goes on.
SwallowCancel(p) ==
    /\ p \in instances
    /\ p \in engine.cancel
    /\ eng[p].pc = "except"
    /\ ExceptBlock(p)
    /\ engine' = [engine EXCEPT !.cancel = @ \ {p}]
    /\ UNCHANGED <<instances, workload, feed>>

\* "while self.is_running" after the sleep of a tick: the loop task ends.
LoopExit(p) ==
    /\ p \in instances
    /\ p \notin engine.cancel
    /\ eng[p].pc = "refresh"
    /\ ~engine.is_running
    /\ instances' = instances \ {p}
    /\ UNCHANGED <<engine, workload, feed, lockKey, orders, trades, positions,
                   ledger, balance, pidSeq, eng, sess, events>>

\* "await self.execution_task" of a stop() or close() call returns when the
\* task has ended; the call returns.
StopReturn(t) ==
    /\ t \in engine.waits \cup engine.waits_restarted
    /\ t \notin instances
    /\ engine' = [engine EXCEPT !.waits = @ \ {t},
                                !.waits_restarted = @ \ {t},
                                !.stopped = @ \/ t \in engine.waits]
    /\ UNCHANGED <<instances, workload, feed, lockKey, orders, trades, positions,
                   ledger, balance, pidSeq, eng, sess, events>>

(***************************************************************************)
(* Specifications.                                                         *)
(***************************************************************************)

InitStore ==
    /\ feed = None
    /\ lockKey = [o \in Orders |-> 0]
    /\ orders = <<>>
    /\ trades = <<>>
    /\ positions = [i \in Pids |-> NoPosition]
    /\ ledger = <<>>
    /\ balance = Money(InitialBalance)
    /\ pidSeq = 0
    /\ eng = [p \in Engines |-> NewEngine]
    /\ sess = [p \in Engines |-> EmptySession]
    /\ events = {}
    /\ engine = RunningEngine

\* One engine instance (one server process); orders of every type and side,
\* market orders of every quantity; positions are closed whole.
Init ==
    /\ instances = {1}
    /\ workload = [shapes |-> {sh \in OrderShapes :
                                 /\ sh.symbol = FeedSymbol
                                 /\ sh.otype = "market" \/ sh.quantity = 1},
                   max |-> MaxOrdersOne, closes |-> {None}, prices |-> Prices,
                   publications |-> MaxPublications, events |-> MaxEvents]
    /\ InitStore

\* One engine instance and a single order of any of the shapes of Init.
InitSingle ==
    /\ instances = {1}
    /\ workload = [shapes |-> {sh \in OrderShapes :
                                 /\ sh.symbol = FeedSymbol
                                 /\ sh.otype = "market" \/ sh.quantity = 1},
                   max |-> MaxOrdersSingle, closes |-> {None}, prices |-> Prices,
                   publications |-> MaxPublicationsSingle,
                   events |-> MaxEventsSingle]
    /\ InitStore

\* Two engine instances on the same store and the same Redis.
InitTwo ==
    /\ instances = Engines
    /\ workload = [shapes |-> {sh \in OrderShapes :
                                 /\ sh.symbol = FeedSymbol
                                 /\ sh.otype = "market" /\ sh.quantity = 1},
                   max |-> MaxOrdersTwo, closes |-> {None}, prices |-> Prices,
                   publications |-> MaxPublications, events |-> MaxEventsTwo]
    /\ InitStore

\* Two engine instances and two market buy orders of quantity 1.
InitPair ==
    /\ instances = Engines
    /\ workload = [shapes |-> {sh \in OrderShapes :
                                 /\ sh.symbol = FeedSymbol
                                 /\ sh.otype = "market"
                                 /\ sh.side = "buy"
                                 /\ sh.quantity = 1},
                   max |-> MaxOrdersPair, closes |-> {None}, prices |-> Prices,
                   publications |-> MaxPublicationsPair, events |-> MaxEventsPair]
    /\ InitStore

\* One engine instance, buy orders of quantity 1 of the market and stop types.
InitBuys ==
    /\ instances = {1}
    /\ workload = [shapes |-> {sh \in OrderShapes :
                                 /\ sh.symbol = FeedSymbol
                                 /\ sh.otype \in {"market", "stop"}
                                 /\ sh.side = "buy"
                                 /\ sh.quantity = 1},
                   max |-> MaxOrders, closes |-> {None}, prices |-> Prices,
                   publications |-> MaxPublications, events |-> MaxEventsBuys]
    /\ InitStore

\* One engine instance; market and stop buy orders and limit sell orders of
\* quantity 1.
InitSell ==
    /\ instances = {1}
    /\ workload = [shapes |-> {sh \in OrderShapes :
                                 /\ sh.symbol = FeedSymbol
                                 /\ <<sh.otype, sh.side>> \in
                                       {<<"market", "buy">>, <<"stop", "buy">>,
                                        <<"limit", "sell">>}
                                 /\ sh.quantity = 1},
                   max |-> MaxOrdersSell, closes |-> {None}, prices |-> Prices,
                   publications |-> MaxPublicationsSell, events |-> MaxEventsSell]
    /\ InitStore

\* One engine instance; market orders: buys of quantity 1, sells of every
\* quantity.
InitMarket ==
    /\ instances = {1}
    /\ workload = [shapes |-> {sh \in OrderShapes :
                                 /\ sh.symbol = FeedSymbol
                                 /\ sh.otype = "market"
                                 /\ sh.side = "sell" \/ sh.quantity = 1},
                   max |-> MaxOrdersMarket, closes |-> {None}, prices |-> Prices,
                   publications |-> MaxPublicationsMarket,
                   events |-> MaxEventsMarket]
    /\ InitStore

\* One engine instance; market buy orders of quantity 1 on the instrument
\* with a price feed and on the instrument without one.
InitSymbols ==
    /\ instances = {1}
    /\ workload = [shapes |-> {sh \in OrderShapes :
                                 /\ sh.otype = "market"
                                 /\ sh.side = "buy"
                                 /\ sh.quantity = 1},
                   max |-> MaxOrdersSymbols, closes |-> {None}, prices |-> Prices,
                   publications |-> MaxPublicationsSymbols,
                   events |-> MaxEventsSymbols]
    /\ InitStore

\* One engine instance; market sell orders of every quantity.
InitSells ==
    /\ instances = {1}
    /\ workload = [shapes |-> {sh \in OrderShapes :
                                 /\ sh.symbol = FeedSymbol
                                 /\ sh.otype = "market"
                                 /\ sh.side = "sell"},
                   max |-> MaxOrdersSells, closes |-> {None}, prices |-> Prices,
                   publications |-> MaxPublicationsSells,
                   events |-> MaxEventsSells]
    /\ InitStore

\* One engine instance; market buy orders of quantity 1; prices 1, 5 and 10.
InitMargin ==
    /\ instances = {1}
    /\ workload = [shapes |-> {sh \in OrderShapes :
                                 /\ sh.symbol = FeedSymbol
                                 /\ sh.otype = "market"
                                 /\ sh.side = "buy"
                                 /\ sh.quantity = 1},
                   max |-> MaxOrdersMargin, closes |-> {None},
                   prices |-> PricesMargin,
                   publications |-> MaxPublicationsMargin,
                   events |-> MaxEventsMargin]
    /\ InitStore

Tick(p) ==
    \/ UpdatePriceCache(p)
    \/ SelectPendingOrders(p)
    \/ AcquireLock(p)
    \/ ProcessOrder(p)
    \/ ReleaseLock(p)
    \/ HandleException(p)
    \/ TickCommit(p)
    \/ ProcessStopOrders(p)
    \/ UpdatePositions(p)
    \/ CheckRiskManagement(p)

Next ==
    \/ \E p \in Engines : Tick(p)
    \/ \E symbol \in Symbols, otype \in OrderTypes, side \in OrderSides,
          quantity \in Quantities, price \in LimitPrices, stop_price \in StopPrices :
          PlaceOrder(symbol, otype, side, quantity, price, stop_price)
    \/ \E o \in Orders : CancelOrder(o)
    \/ \E pid \in Pids, quantity \in Quantities \cup {None} :
          ClosePosition(pid, quantity)
    \/ \E v \in Prices \cup PricesMargin : PublishPrice(v)
    \/ \E o \in Orders : LockExpire(o)
    \/ \E p \in Engines : ClearMissingPriceLog(p)
    \/ \E p \in Engines : TestTriggerStopLoss(p)
    \/ \E p \in Engines : TestTriggerTakeProfit(p)

Spec == Init /\ [][Next]_vars

SpecSingle == InitSingle /\ [][Next]_vars

SpecTwo == InitTwo /\ [][Next]_vars

SpecPair == InitPair /\ [][Next]_vars

SpecBuys == InitBuys /\ [][Next]_vars

SpecSell == InitSell /\ [][Next]_vars

SpecMarket == InitMarket /\ [][Next]_vars

SpecSymbols == InitSymbols /\ [][Next]_vars

SpecSells == InitSells /\ [][Next]_vars

SpecMargin == InitMargin /\ [][Next]_vars

\* One call of an operation wrapped by retry_on_deadlock(max_retries=3): the
\* operation may return or raise any of the exceptions on each execution.
InitRetry ==
    /\ instances = {1}
    /\ workload = [shapes |-> {}, max |-> 0, closes |-> {None}, prices |-> {},
                   publications |-> 0, events |-> 0]
    /\ feed = None
    /\ lockKey = [o \in Orders |-> 0]
    /\ orders = <<>>
    /\ trades = <<>>
    /\ positions = [i \in Pids |-> NoPosition]
    /\ ledger = <<>>
    /\ balance = Money(InitialBalance)
    /\ pidSeq = 0
    /\ \E func \in [1 .. MaxExecutions -> AttemptOutcomes] :
          eng = [p \in Engines |->
                   [NewEngine EXCEPT !.call = [NoCall EXCEPT !.pc = "try",
                                                            !.func = func,
                                                            !.result = "running"]]]
    /\ sess = [p \in Engines |-> EmptySession]
    /\ events = {}
    /\ engine = RunningEngine

NextRetry ==
    \/ \E p \in Engines : RetryAttempt(p)
    \/ \E p \in Engines : RetrySleep(p)

SpecRetry == InitRetry /\ [][NextRetry]_vars

\* One process whose engine is initialized and not started, as main.py
\* leaves it: the loop tasks are those start() creates.  Market buy orders on
\* the instrument with a price feed, no price published yet.
InitLoop ==
    /\ instances = {}
    /\ workload = [shapes |-> {sh \in OrderShapes :
                                 /\ sh.symbol = FeedSymbol
                                 /\ sh.otype = "market"
                                 /\ sh.side = "buy"
                                 /\ sh.quantity = 1},
                   max |-> MaxOrdersLoop, closes |-> {None}, prices |-> Prices,
                   publications |-> MaxPublicationsLoop,
                   events |-> MaxEventsLoop]
    /\ feed = None
    /\ lockKey = [o \in Orders |-> 0]
    /\ orders = <<>>
    /\ trades = <<>>
    /\ positions = [i \in Pids |-> NoPosition]
    /\ ledger = <<>>
    /\ balance = Money(InitialBalance)
    /\ pidSeq = 0
    /\ eng = [p \in Engines |-> NewEngine]
    /\ sess = [p \in Engines |-> EmptySession]
    /\ events = {}
    /\ engine = [RunningEngine EXCEPT !.shared = TRUE, !.is_running = FALSE]

NextLoop ==
    \/ \E p \in Engines : Tick(p)
    \/ \E symbol \in Symbols, otype \in OrderTypes, side \in OrderSides,
          quantity \in Quantities, price \in LimitPrices, stop_price \in StopPrices :
          PlaceOrder(symbol, otype, side, quantity, price, stop_price)
    \/ \E v \in Prices : PublishPrice(v)
    \/ StartEngine
    \/ RunScheduledStart
    \/ \E by_api \in BOOLEAN : StopEngine(by_api)
    \/ \E p \in Engines, released \in BOOLEAN : CancelTask(p, released)
    \/ \E p \in Engines : SwallowCancel(p)
    \/ \E p \in Engines : LoopExit(p)
    \/ \E t \in Engines : StopReturn(t)

SpecLoop == InitLoop /\ [][NextLoop]_vars

(***************************************************************************)
(* Properties.                                                             *)
(***************************************************************************)

TradesOf(o) == {i \in DOMAIN trades : trades[i].order = o}
LedgerOf(o, type) ==
    {i \in DOMAIN ledger : ledger[i].order = o /\ ledger[i].entry_type = type}

\* The engines that are inside the lock-protected section of _process_order
\* for order o: the SET NX succeeded and the finally block has not run yet.
Holders(o) ==
    {p \in instances : /\ eng[p].pc \in {"body", "finally"}
                       /\ Head(eng[p].queue) = o}

RECURSIVE SumAmounts(_)
SumAmounts(entries) ==
    IF entries = <<>> THEN 0
    ELSE Head(entries).amount + SumAmounts(Tail(entries))

\* C1: an order is never filled twice: the store holds at most one Trade of
\* an order, whatever engine instances process it concurrently.
AtMostOnceFill ==
    \A o \in DOMAIN orders : Cardinality(TradesOf(o)) <= 1

\* C2: at any time at most one invocation of _process_order holds the lock
\* of a given order.
LockMutualExclusion ==
    \A o \in Orders : Cardinality(Holders(o)) <= 1

\* C3: the store never holds two open positions of the (user, instrument)
\* pair.
OneOpenPosition == Cardinality(OpenPositions) <= 1

\* C4: the parts of a fill are durable together or not at all: a stored order
\* has a Trade exactly when it has the ledger entry of that trade, and its
\* filled quantity is that of its trades.
AtomicFill ==
    \A o \in DOMAIN orders :
       /\ Cardinality(TradesOf(o)) = Cardinality(LedgerOf(o, "pnl"))
       /\ orders[o].filled_quantity > 0 <=> TradesOf(o) # {}

\* C5: once an order is filled, cancelled or rejected, no step changes its
\* status, type, filled quantity or prices.
TerminalImmutable ==
    [][\A o \in DOMAIN orders :
          orders[o].status \in Terminal =>
             /\ orders'[o].status = orders[o].status
             /\ orders'[o].otype = orders[o].otype
             /\ orders'[o].filled_quantity = orders[o].filled_quantity
             /\ orders'[o].price = orders[o].price
             /\ orders'[o].stop_price = orders[o].stop_price]_vars

LedgerInvariant ==
    /\ \A i \in DOMAIN ledger :
          ledger[i].balance_after - ledger[i].balance_before = ledger[i].amount
    /\ \A i \in DOMAIN ledger :
          i > 1 => ledger[i].balance_before = ledger[i - 1].balance_after
    /\ balance = Money(InitialBalance) + SumAmounts(ledger)

\* Engine p runs the inner try block of _process_order on an order of the
\* given type that is pending, in the store and in its session, with a price
\* in its price cache.
Pass(p, otype) ==
    /\ eng[p].pc = "body"
    /\ eng'[p].pc = "finally"
    /\ eng[p].price_cache # None
    /\ sess[p].ord[Head(eng[p].queue)].symbol = FeedSymbol
    /\ orders[Head(eng[p].queue)].status = "pending"
    /\ sess[p].ord[Head(eng[p].queue)].status = "pending"
    /\ sess[p].ord[Head(eng[p].queue)].otype = otype

\* The pass of engine p has filled order o: quantity q at the given price.
FilledInPass(p, o, q, price) ==
    /\ sess'[p].ord[o].status = "filled"
    /\ sess'[p].ord[o].remaining_quantity = 0
    /\ \E t \in {trades'[i] : i \in DOMAIN trades'}
                 \cup {sess'[p].trades[i] : i \in DOMAIN sess'[p].trades} :
          t.order = o /\ t.quantity = q /\ t.entry_price = price

\* C8: a pending market order whose instrument has a cached price is filled
\* for its remaining quantity at that price in the pass that processes it.
MarketOrderFilled ==
    [][\A p \in instances :
          Pass(p, "market") =>
             FilledInPass(p, Head(eng[p].queue),
                          sess[p].ord[Head(eng[p].queue)].remaining_quantity,
                          eng[p].price_cache)]_vars

\* C9: a pending limit order is filled in its pass iff the cached price is
\* on the right side of the limit (buy: at or below, sell: at or above), at
\* min(current, limit) for a buy and max(current, limit) for a sell; otherwise
\* the order is left as it is.
LimitOrderRule ==
    [][\A p \in instances :
          Pass(p, "limit") =>
             LET o == Head(eng[p].queue)
                 order == sess[p].ord[o]
                 current_price == eng[p].price_cache
             IN IF order.side = "buy"
                THEN IF current_price <= order.price
                     THEN FilledInPass(p, o, order.remaining_quantity,
                                       Min(current_price, order.price))
                     ELSE sess'[p].ord[o] = order /\ orders'[o] = orders[o]
                ELSE IF current_price >= order.price
                     THEN FilledInPass(p, o, order.remaining_quantity,
                                       Max(current_price, order.price))
                     ELSE sess'[p].ord[o] = order /\ orders'[o] = orders[o]]_vars

\* C10: a stop order that triggers is converted to a market order and filled
\* in the same pass: once the tick that converted it is over, the store does
\* not show the converted order (type market, the stop price kept) pending.
StopOrderFilled ==
    \A o \in DOMAIN orders :
       (/\ orders[o].otype = "market"
        /\ orders[o].stop_price # None
        /\ orders[o].status = "pending")
       => \E p \in instances : o \in sess[p].loaded

\* The order of engine p's pass has no Trade, durable or pending, after it.
NoTradeAfterPass(p, o) ==
    /\ \A i \in DOMAIN trades' : trades'[i].order # o
    /\ \A i \in DOMAIN sess'[p].trades : sess'[p].trades[i].order # o

\* C11: a pending stop-limit order whose trigger condition holds in its pass
\* is converted to a limit order, durably: the limit price is kept, the stop
\* price is cleared, the order stays pending and the pass does not fill it;
\* from then on it is a limit order to the dispatch of the later ticks.
StopLimitRule ==
    [][\A p \in instances :
          LET o == Head(eng[p].queue)
              order == sess[p].ord[o]
          IN (Pass(p, "stop_limit") /\ ShouldTrigger(order, eng[p].price_cache))
             => /\ orders'[o].otype = "limit"
                /\ orders'[o].price = order.price
                /\ orders'[o].stop_price = None
                /\ orders'[o].status = "pending"
                /\ orders'[o].filled_quantity = 0
                /\ sess'[p].ord[o] = orders'[o]
                /\ NoTradeAfterPass(p, o)]_vars

\* The order the stop-loss / take-profit path has to leave in the store for
\* the given position: a new market order of the opposite side for the
\* position's whole quantity, filled.
ClosingOrderFilled(position) ==
    \E o \in DOMAIN orders' :
       /\ o \notin DOMAIN orders
       /\ orders'[o].otype = "market"
       /\ orders'[o].side = (IF position.side = "long" THEN "sell" ELSE "buy")
       /\ orders'[o].quantity = position.quantity
       /\ orders'[o].status = "filled"

\* C12: whenever the stop-loss or the take-profit trigger runs for an open
\* position with a cached price (from the check of _process_stop_orders when
\* the position's stop_loss / take_profit condition holds, or called
\* directly), the store then holds a filled market order of the opposite
\* side for the position's quantity and the triggered event is published.
StopLossTakeProfitFilled ==
    [][\A p \in instances :
          LET position == eng[p].position_cache.row
              pid == eng[p].position_cache.pid
              price == eng[p].price_cache
              open == /\ eng[p].position_cache.origin # "none"
                      /\ position.status = "open"
                      /\ price # None
              stop_loss == \/ TestTriggerStopLoss(p)
                           \/ /\ ProcessStopOrders(p)
                              /\ Usable(eng[p].position_cache)
                              /\ position.stop_loss # None
                              /\ ShouldTriggerStopLoss(position, price)
              take_profit == \/ TestTriggerTakeProfit(p)
                             \/ /\ ProcessStopOrders(p)
                                /\ Usable(eng[p].position_cache)
                                /\ position.take_profit # None
                                /\ ShouldTriggerTakeProfit(position, price)
          IN /\ (open /\ stop_loss) =>
                  /\ ClosingOrderFilled(position)
                  /\ <<"stop_loss_triggered", pid>> \in events'
             /\ (open /\ take_profit) =>
                  /\ ClosingOrderFilled(position)
                  /\ <<"take_profit_triggered", pid>> \in events']_vars

\* The risk check of engine p finds the liquidation condition on its cached
\* position, and the stored position is open and satisfies it as well.
LiquidationDue(p) ==
    LET cache == eng[p].position_cache IN
    /\ cache.origin = "loaded"
    /\ cache.row.status = "open"
    /\ cache.row.margin_used > 0
    /\ cache.row.total_pnl <= -cache.row.margin_used
    /\ positions[cache.pid].status = "open"
    /\ positions[cache.pid].margin_used > 0
    /\ positions[cache.pid].total_pnl <= -positions[cache.pid].margin_used

\* C13: a risk check that finds an open position with margin_used > 0 and
\* total_pnl <= -margin_used leaves the stored position liquidated, and a
\* liquidated position is never open again, in the store or in a cache.
LiquidationTerminal ==
    [][/\ \A p \in instances :
             (CheckRiskManagement(p) /\ LiquidationDue(p))
                => positions'[eng[p].position_cache.pid].status = "liquidated"
       /\ \A i \in Pids :
             positions[i].status = "liquidated"
                => positions'[i].status = "liquidated"
       /\ \A p \in instances :
             eng[p].position_cache.row.status = "liquidated"
                => ~(/\ eng'[p].position_cache.pid = eng[p].position_cache.pid
                     /\ eng'[p].position_cache.row.status = "open")]_vars

\* Engine p is in _process_order (inner try block, finally block or except
\* block) for an order that is pending in the store, with no price cached.
MissingPrice(p) ==
    /\ eng[p].pc \in {"body", "finally", "except"}
    /\ \/ eng[p].price_cache = None
       \/ orders[Head(eng[p].queue)].symbol # FeedSymbol
    /\ orders[Head(eng[p].queue)].status = "pending"

\* C14: while the price cache holds no price, no step of the engine on a
\* pending order of the (real) symbol changes the order or raises: the order
\* is left pending for the later ticks.
MissingPriceKeepsPending ==
    [][\A p \in instances :
          (MissingPrice(p) /\ Tick(p))
             => /\ orders'[Head(eng[p].queue)] = orders[Head(eng[p].queue)]
                /\ ~eng'[p].exc]_vars

\* C15: a pass in which a step raises ends with the order rejected and a
\* rejection reason stored, whatever the order's type: either the pass itself
\* rejects the order, or the exception reaches the handler of _process_order
\* and the handler does; and the finally block and the handler leave the
\* order's lock free.
RejectedOnFailure ==
    [][\A p \in instances :
          LET o == Head(eng[p].queue) IN
          /\ (ProcessOrder(p) /\ ProcessOrderBody(World(p), o).raised)
                => \/ eng'[p].exc
                   \/ /\ orders'[o].status = "rejected"
                      /\ orders'[o].rejection_reason # "none"
          /\ HandleException(p)
                => /\ orders'[o].status = "rejected"
                   /\ orders'[o].rejection_reason # "none"
                   /\ lockKey'[o] = 0
          /\ ReleaseLock(p) => lockKey'[o] = 0]_vars

\* Another order of the tick of engine p was rejected by the exception
\* handler of _process_order.
FailedBeside(p, o) ==
    \E o2 \in sess[p].loaded \ {o} :
       /\ sess[p].ord[o2].status = "rejected"
       /\ sess[p].ord[o2].rejection_reason = "processing_error"

\* C16: an exception raised for one order of a tick does not change what
\* happens to the other orders of the tick: an order the tick has filled is
\* filled in the store once the tick is over, also when another order of the
\* tick was rejected by the exception handler.
FaultIsolation ==
    [][\A p \in instances :
          TickCommit(p) =>
             \A o \in sess[p].loaded :
                (sess[p].ord[o].status = "filled" /\ FailedBeside(p, o))
                   => /\ orders'[o].status = "filled"
                      /\ \E i \in DOMAIN trades' : trades'[i].order = o]_vars

\* C17: a fill event is published only after the fill is durable: whenever
\* order_filled or order_partially_filled has been published for an order,
\* the store holds a Trade of the order and shows the order filled.
EventAfterDurable ==
    \A e \in events :
       e[1] \in {"order_filled", "order_partially_filled"}
          => /\ TradesOf(e[2]) # {}
             /\ orders[e[2]].filled_quantity > 0

\* The position row _update_existing_position works on for the cached
\* position of engine p: the object of the identity map when the session has
\* one, the stored row otherwise.
LockedPosition(p) ==
    LET pid == eng[p].position_cache.pid
    IN IF pid \in sess[p].posLoaded THEN sess[p].pos[pid] ELSE positions[pid]

\* is_increasing of _update_existing_position: the order's side adds to a
\* position of this side.
SameDirection(side, position_side) ==
    \/ side = "buy" /\ position_side = "long"
    \/ side = "sell" /\ position_side = "short"

\* Engine p is about to fill the market order at the head of its queue at
\* the cached price, and the fill goes to an existing open position that it
\* increases (is_increasing TRUE) or decreases (FALSE).
FillOnPosition(p, is_increasing) ==
    LET o == Head(eng[p].queue)
        order == sess[p].ord[o]
        cache == eng[p].position_cache
    IN /\ eng[p].pc = "body"
       /\ order.status = "pending"
       /\ order.otype = "market"
       /\ order.symbol \in eng[p].missing_price_logged
       /\ order.symbol = FeedSymbol
       /\ eng[p].price_cache # None
       /\ cache.origin # "none"
       /\ cache.row.status = "open"
       /\ LockedPosition(p).status = "open"
       /\ SameDirection(order.side, LockedPosition(p).side) = is_increasing

\* C18: a closing fill adds (exit - entry) * closed_qty to the position's
\* realized P&L for a long and (entry - exit) * closed_qty for a short, with
\* closed_qty the part of the position the fill closes, min(fill_qty,
\* position_qty); the position is closed with quantity 0 when fill_qty >=
\* position_qty, and stays open with its quantity reduced otherwise.
RealizedPnlOnClose ==
    [][\A p \in instances :
          (FillOnPosition(p, FALSE) /\ ProcessOrder(p)) =>
             LET pid == eng[p].position_cache.pid
                 before == LockedPosition(p)
                 after == sess'[p].pos[pid]
                 fill_qty == sess[p].ord[Head(eng[p].queue)].quantity
                 closed_qty == Min(fill_qty, before.quantity)
                 exit == Money(eng[p].price_cache)
                 entry == before.average_entry_price
             IN /\ after.realized_pnl - before.realized_pnl =
                      IF before.side = "long"
                      THEN (exit - entry) * closed_qty
                      ELSE (entry - exit) * closed_qty
                /\ IF fill_qty >= before.quantity
                   THEN after.status = "closed" /\ after.quantity = 0
                   ELSE /\ after.status = "open"
                        /\ after.quantity = before.quantity - fill_qty]_vars

\* Engine p is about to fill the market order at the head of its queue at
\* the cached price, and the fill opens a position: the cache holds no open
\* position of the pair.
FillOpensPosition(p) ==
    LET o == Head(eng[p].queue)
        order == sess[p].ord[o]
        cache == eng[p].position_cache
    IN /\ eng[p].pc = "body"
       /\ order.status = "pending"
       /\ order.otype = "market"
       /\ order.symbol \in eng[p].missing_price_logged
       /\ order.symbol = FeedSymbol
       /\ eng[p].price_cache # None
       /\ cache.origin = "none" \/ cache.row.status # "open"
       /\ pidSeq < MaxPositions

\* C19: the fill that opens a position gives it the fill's quantity and
\* price, and every same-direction fill on the position adds its quantity
\* and makes the average entry price (old quantity * old average + fill
\* quantity * fill price) / new quantity, to the precision of the stored
\* value: after N such fills the quantity is the sum of the fill quantities
\* and the average is their quantity-weighted mean price.
WeightedAverageEntry ==
    [][\A p \in instances :
          LET fill_qty == sess[p].ord[Head(eng[p].queue)].quantity
              fill_price == Money(eng[p].price_cache)
          IN /\ (FillOpensPosition(p) /\ ProcessOrder(p)) =>
                   LET after == sess'[p].pos[pidSeq + 1]
                   IN /\ after.status = "open"
                      /\ after.quantity = fill_qty
                      /\ after.average_entry_price = fill_price
             /\ (FillOnPosition(p, TRUE) /\ ProcessOrder(p)) =>
                   LET before == LockedPosition(p)
                       after == sess'[p].pos[eng[p].position_cache.pid]
                       cost == before.quantity * before.average_entry_price
                               + fill_qty * fill_price
                       rest == cost - after.average_entry_price * after.quantity
                   IN /\ after.status = "open"
                      /\ after.quantity = before.quantity + fill_qty
                      /\ 0 <= rest /\ rest < after.quantity]_vars

\* A stored open position built by a sell of quantity 1 at price 1 and a sell
\* of quantity 2 at price 2: quantity 3, average entry 5/3.
WeightedAverageWitness ==
    \E i \in Pids :
       /\ positions[i].status = "open"
       /\ positions[i].side = "short"
       /\ positions[i].quantity = 3
       /\ positions[i].average_entry_price = 1666

\* The stored position i is closed, fully or partly, by this step.
ClosedByStep(i) ==
    /\ positions[i].status = "open"
    /\ \/ positions'[i].status # "open"
       \/ positions'[i].quantity < positions[i].quantity

\* The ledger rows this step appends to the store.
AppendedEntries == (DOMAIN ledger') \ (DOMAIN ledger)

RiskCheckNoLiquidation(p) ==
    LET position == eng[p].position_cache.row IN
    /\ eng[p].position_cache.origin # "none"
    /\ position.status = "open"
    /\ position.margin_used > 0
    /\ position.total_pnl > -position.margin_used

\* The events of the given type that this step publishes.
Published(type) == {e \in events' \ events : e[1] = type}

\* C21: when the risk check runs on a cached open position with margin_used
\* > 0, unrealized_pnl / margin_used <= -0.8 and no liquidation condition, it
\* publishes margin_call for the position and changes nothing else: orders,
\* trades, positions, ledger, balance and the cached position stay as they
\* are; and a check that finds the liquidation condition publishes no
\* margin_call.
MarginCallAdvisory ==
    [][\A p \in instances :
          LET cache == eng[p].position_cache
              position == cache.row
          IN /\ ( /\ CheckRiskManagement(p)
                  /\ RiskCheckNoLiquidation(p)
                  /\ 10 * position.unrealized_pnl <= -8 * position.margin_used )
                => /\ <<"margin_call", cache.pid>> \in events'
                   /\ events' \ events \subseteq {<<"margin_call", cache.pid>>}
                   /\ UNCHANGED <<orders, trades, positions, ledger, balance>>
                   /\ eng'[p].position_cache = cache
             /\ (CheckRiskManagement(p) /\ LiquidationDue(p))
                => Published("margin_call") = {}]_vars

\* The loop steps of one tick in the order the claim C23 gives them, each by
\* the position of the loop at which it starts.
ClaimedStepOrder == <<"refresh", "select", "stops", "risk", "positions">>

\* The position at which the step after the one starting at pc starts.
ClaimedSuccessor(pc) ==
    LET i == CHOOSE j \in DOMAIN ClaimedStepOrder : ClaimedStepOrder[j] = pc
    IN IF i = Len(ClaimedStepOrder) THEN ClaimedStepOrder[1]
       ELSE ClaimedStepOrder[i + 1]

\* C23: every tick runs price cache refresh, processing of the pending
\* orders, the stop-loss / take-profit scan, the liquidation / margin-call
\* scan and the persistence of the position revaluation in this order, each
\* step starting when the previous one has finished.
TickStepOrder ==
    [][\A p \in instances :
          /\ UpdatePriceCache(p) => eng'[p].pc = ClaimedSuccessor("refresh")
          /\ TickCommit(p) => eng'[p].pc = ClaimedSuccessor("select")
          /\ ProcessStopOrders(p) => eng'[p].pc = ClaimedSuccessor("stops")
          /\ CheckRiskManagement(p) => eng'[p].pc = ClaimedSuccessor("risk")
          /\ UpdatePositions(p) => eng'[p].pc = ClaimedSuccessor("positions")]_vars

\* The position cache of engine p after the step holds exactly the open
\* positions the store holds after the step (there is one (user, instrument)
\* pair, so at most one entry), with the stored quantity, status and P&L.
CacheMirrorsStore(p) ==
    LET cache == eng'[p].position_cache
        open == {i \in Pids : positions'[i].status = "open"}
        cached == IF cache.origin # "none" /\ cache.row.status = "open"
                  THEN {cache.pid} ELSE {}
    IN /\ cached = open
       /\ \A i \in cached :
             /\ cache.row.quantity = positions'[i].quantity
             /\ cache.row.status = positions'[i].status
             /\ cache.row.realized_pnl = positions'[i].realized_pnl
             /\ cache.row.unrealized_pnl = positions'[i].unrealized_pnl
             /\ cache.row.total_pnl = positions'[i].total_pnl

\* C24: whenever a step of the engine has completed a durable mutation of
\* positions (the commit of a tick whose fills opened, increased or closed a
\* position, or a revaluation at a new price), the position cache of the
\* engine mirrors the store: a position just opened is in it, a position
\* just closed is not, and the cached values are the stored ones.
PositionCacheMirror ==
    [][\A p \in instances :
          ( /\ positions' # positions
            /\ TickCommit(p) \/ UpdatePriceCache(p) \/ UpdatePositions(p) )
          => CacheMirrorsStore(p)]_vars

\* C25: a fill that closes part of a position (fill_qty < position_qty)
\* leaves margin_used = old margin_used * (position_qty - fill_qty) /
\* position_qty, whatever the price of the closing trade, and so never a
\* negative margin_used.
ProportionalMarginRelease ==
    [][\A p \in instances :
          LET fill_qty == sess[p].ord[Head(eng[p].queue)].quantity
              before == LockedPosition(p)
              after == sess'[p].pos[eng[p].position_cache.pid]
          IN ( /\ FillOnPosition(p, FALSE)
               /\ fill_qty < before.quantity
               /\ ProcessOrder(p) )
             => /\ after.margin_used * before.quantity
                      = before.margin_used * (before.quantity - fill_qty)
                /\ after.margin_used >= 0]_vars

\* C26: a call of an operation wrapped by the retry policy runs the operation
\* again only after an execution that raised a deadlock or serialization
\* error, at most 3 times (4 executions in all), sleeping 0.5 s x 2^attempt
\* before each retry; the call cannot get stuck, and it ends by returning the
\* operation's result, by raising TransactionRetryError after the retries are
\* used up, or at the first error that is not a deadlock, which is the only
\* execution when it is the first one.
RaisedDeadlock(e) == e \in Exceptions /\ IsDeadlockError(e)

SessionBalance(p) == IF sess[p].acctLoaded THEN sess[p].balance ELSE balance

\* C27: a fill with trade amount A and commission c changes the account
\* balance by the signed trade amount minus c, so that c is deducted once,
\* and the amounts of the ledger entries written for the fill sum to that
\* balance change.
CommissionChargedOnce ==
    [][\A p \in instances :
          ( /\ ProcessOrder(p)
            /\ Len(sess'[p].trades) = Len(sess[p].trades) + 1
            /\ Len(sess'[p].ledger) > Len(sess[p].ledger) )
          => LET trade == sess'[p].trades[Len(sess'[p].trades)]
                 signed == IF trade.side = "buy" THEN trade.amount
                           ELSE -trade.amount
                 written == SubSeq(sess'[p].ledger, Len(sess[p].ledger) + 1,
                                   Len(sess'[p].ledger))
             IN /\ sess'[p].balance - SessionBalance(p)
                      = signed - trade.commission
                /\ SumAmounts(written) = signed - trade.commission]_vars

\* C28: a step publishes an order_filled event for an order only if the
\* order's status became filled in that step: never for an order that is
\* still pending afterwards (one just converted from stop-limit to limit),
\* that was rejected, or whose fill attempt returned without filling.
OrderFilledTruthful ==
    [][\A p \in instances, o \in Orders :
          ( /\ ProcessOrder(p)
            /\ <<"order_filled", o>> \in events' \ events )
          => /\ sess[p].ord[o].status # "filled"
             /\ sess'[p].ord[o].status = "filled"]_vars

\* The stored closing orders the engine created for position i.
ClosingOrders(i) == {o \in DOMAIN orders : orders[o].notes = i}

\* Engine p holds in its cache an open position that is open in the store.
ForcedCloseCase(p) ==
    /\ Usable(eng[p].position_cache)
    /\ positions[eng[p].position_cache.pid].status = "open"

TickingTasks == instances \ engine.cancel

\* C30: whatever the interleaving of start(), stop(), close() and order
\* placements that start the engine, at most one execution-loop task
\* executes tick steps at any time; and once a stop() has returned with no
\* start() called since, is_running is false and no task executes tick steps.
SingleLoopCleanStop ==
    /\ Cardinality(TickingTasks) <= 1
    /\ engine.stopped => ~engine.is_running /\ TickingTasks = {}

\* A step of the tick of task p raises an error: the except block of
\* _process_order runs for an order, or the commit that ends
\* _process_pending_orders fails on a transaction that is already closed.
StepRaises(p) ==
    \/ HandleException(p)
    \/ TickCommit(p) /\ ~sess[p].t1Open

====

